---- MODULE Spec2Model ----
(***************************************************************************)
(* Chunked parallel compressor / decompressor (4zip).                      *)
(*                                                                         *)
(* The repository holds three generations of the same pipeline:            *)
(*   "lz4"  : src/compressor.c  (pre-loaded chunks, JobQueue, LZ4, FNV-1a)  *)
(*            read back by decompress_file, src/decompressor.c:11-82       *)
(*   "zstd" : src/decompressor.c:485-578 (shared file cursor, ZSTD, magic  *)
(*            "ZSTDCP1"), read back by decompress_container (106-168)      *)
(*   "evp"  : src/unnamed/part_002 (pre-loaded chunks, JobQueue, ZSTD),    *)
(*            read back by main, src/decompressor.c:196-285                *)
(* ("lz4" has a second reader: decompress_file, decompressor.c:599-658.)   *)
(* One run = one compress of `input` followed by one decompress of the     *)
(* produced container.  Resource failures (malloc, codec context, codec,   *)
(* fopen, short read, short write, a failing accelerated digest) and       *)
(* damage to the stored files (truncation, one altered byte, an altered    *)
(* ledger) are choices of the environment, at most MaxFaults of them in    *)
(* one run.                                                                *)
(***************************************************************************)
EXTENDS Integers, Sequences, FiniteSets, TLC

\* ---------------------------------------------------------------- bounds
MaxLen == 3        \* longest input file, in bytes
MaxChunk == 3      \* largest chunk size (CHUNK_SIZE is a build-time macro)
MaxWorkers == 2    \* largest value sysconf(_SC_NPROCESSORS_ONLN) takes
MaxFaults == 1     \* environment failures in one run
Near == 8          \* file sizes are taken this close around each tier limit
HashLen == 3       \* longest buffer handed to the checksum functions

Byte == {65, 66}   \* the bytes input files are made of ("A", "B")

\* ------------------------------------------------------- generic helpers
NULL == <<-1>>     \* a null pointer, where a byte buffer is expected

Min(a, b) == IF a < b THEN a ELSE b

RECURSIVE SeqsUpTo(_)
SeqsUpTo(n) ==
  IF n = 0 THEN {<<>>}
  ELSE LET S == SeqsUpTo(n - 1)
       IN  S \cup {Append(s, b) : s \in {x \in S : Len(x) = n - 1}, b \in Byte}

\* the input files of the model: up to MaxLen bytes; the two byte values are
\* interchangeable, so a non-empty file starts with the first of them
Inputs == {s \in SeqsUpTo(MaxLen) : s = <<>> \/ s[1] = 65}

Bytes(s, from, n) == SubSeq(s, from + 1, from + n)   \* n bytes at 0-based offset

RECURSIVE Zeros(_)
Zeros(n) == IF n <= 0 THEN <<>> ELSE <<0>> \o Zeros(n - 1)

\* ---------------------------------------------- fixed-width binary fields
\* fwrite(&v, sizeof(uint64_t), 1, f) on a little-endian machine
U64(v) == <<v % 256, (v \div 256) % 256>> \o Zeros(6)

\* fwrite(&v, sizeof(int), 1, f): 32-bit two's complement, little-endian
I32(v) ==
  IF v >= 0 THEN <<v % 256, (v \div 256) % 256, 0, 0>>
  ELSE <<(256 + v) % 256, 255, 255, 255>>

HugeVal == 2147483647   \* stands for every uint64_t that no buffer can hold

\* fread(&v, sizeof(uint64_t), 1, f) of 8 bytes bs
U64Val(bs) ==
  IF \A k \in 3..8 : bs[k] = 0 THEN bs[1] + 256 * bs[2] ELSE HugeVal

\* fread(&v, sizeof(uint32_t), 1, f) of 4 bytes bs
U32Val(bs) ==
  IF bs[4] >= 128 THEN HugeVal
  ELSE bs[1] + 256 * bs[2] + 65536 * bs[3] + 16777216 * bs[4]

\* fread(&v, sizeof(int), 1, f) of 4 bytes bs
I32Val(bs) ==
  bs[1] + 256 * bs[2] + 65536 * bs[3]
    + 16777216 * (IF bs[4] >= 128 THEN bs[4] - 256 ELSE bs[4])

\* ------------------------------------------------------------------ codec
\* The block codec behind LZ4_compress_default / ZSTD_compressCCtx and
\* LZ4_decompress_safe / ZSTD_decompress: a run-length code, <<n, v>> per run.
RECURSIVE RunLen(_, _)
RunLen(s, v) == IF s = <<>> \/ s[1] # v THEN 0 ELSE 1 + RunLen(Tail(s), v)

RECURSIVE CodecCompress(_)
CodecCompress(s) ==
  IF s = <<>> THEN <<>>
  ELSE LET n == RunLen(s, s[1])
       IN  <<n, s[1]>> \o CodecCompress(SubSeq(s, n + 1, Len(s)))

CodecError == <<-2>>

\* n times the byte v
Repeat(v, n) == [k \in 1..n |-> v]

RECURSIVE CodecExpand(_)
CodecExpand(c) ==
  IF c = <<>> THEN <<>>
  ELSE IF Len(c) < 2 \/ c[1] <= 0 THEN CodecError
  ELSE LET rest == CodecExpand(SubSeq(c, 3, Len(c)))
       IN  IF rest = CodecError THEN CodecError ELSE Repeat(c[2], c[1]) \o rest

\* LZ4_decompress_safe(c, dst, Len(c), cap): the bytes, or CodecError (< 0);
\* an empty source is an error
LZ4_decompress_safe(c, cap) ==
  LET out == CodecExpand(c)
  IN  IF c = <<>> \/ out = CodecError \/ Len(out) > cap THEN CodecError ELSE out

\* ZSTD_decompress(dst, cap, c, Len(c)): the bytes, or CodecError
\* (ZSTD_isError); an empty source holds no frame and yields 0 bytes
ZSTD_decompress(c, cap) ==
  LET out == CodecExpand(c)
  IN  IF out = CodecError \/ Len(out) > cap THEN CodecError ELSE out

\* ----------------------------------------------------------------- digest
RECURSIVE Xor(_, _)
Xor(a, b) ==
  IF a = 0 THEN b
  ELSE IF b = 0 THEN a
  ELSE (((a % 2) + (b % 2)) % 2) + 2 * Xor(a \div 2, b \div 2)

FnvStepMulFirst(h, byte) ==
  LET p  == h[2] * 403
      hi == (h[1] * 403 + h[2] * 256 + (p \div 65536)) % 65536
  IN  <<hi, Xor(p % 65536, byte)>>

\* a uint32_t is kept as <<high 16 bits, low 16 bits>>
FnvStep(h, byte) ==
  LET lo == Xor(h[2], byte)
      p  == lo * 403
  IN  <<(h[1] * 403 + lo * 256 + (p \div 65536)) % 65536, p % 65536>>

RECURSIVE FnvFold(_, _)
FnvFold(h, data) ==
  IF data = <<>> THEN h ELSE FnvFold(FnvStep(h, data[1]), Tail(data))

cpu_hash_fnv1a(data) == FnvFold(<<33052, 40389>>, data)

fnv1a32_device(data) == FnvFold(<<33052, 40389>>, data)

\* SHA-256 of OpenSSL, kept as an ideal (collision-free) digest of the bytes
Sha256(data) == [zero |-> FALSE, of |-> data]
ShaZero == [zero |-> TRUE, of |-> <<>>]

\* what a digest buffer nobody has written may hold
HashGarbage == {<<65535, 65535>>}
ShaGarbage == {Sha256(<<0>>)}

\* the digest a caller records after the accelerated call g = [res, out]:
\* the software digest when the call returned non-zero, else what it left
NoFallback(g, soft) == g.out

Fallback(g, soft) == IF g.res # 0 THEN soft ELSE g.out

\* ------------------------------------------------------------------ state
VARIABLES
  variant,      \* which generation of the program runs
  input,        \* the bytes of the input file
  chunk_size,   \* CHUNK_SIZE / choose_chunk_size(filesize)
  nthreads,     \* worker threads the run creates
  num_chunks,   \* num_chunks of the compressor
  mpc, mi,      \* main thread: position and loop index
  jobs,         \* Job / ChunkJob array ("lz4", "evp"), index 0..num_chunks-1
  results,      \* ChunkResult array ("zstd")
  next,         \* JobQueue.next / next_idx
  fpos,         \* file position of the shared FILE* fin ("zstd")
  lock,         \* owner of JobQueue.lock / file_lock, 0 when free
  wpc,          \* worker thread positions
  wjob,         \* worker local: claimed job index / read_offset
  wbuf,         \* worker local: chunk buffer read from fin ("zstd")
  claims,       \* history: how often each chunk id was claimed
  hiDone,       \* history: highest chunk id completed so far, -1 at first
  ooo,          \* history: some chunk completed after a higher one
  created,      \* files that exist: subset of {"cmp", "meta", "out"}
  fcmp,         \* bytes of the container file
  fmeta,        \* lines of the ledger, each <<id, orig, stored, digest>>
  cret,         \* exit status of compress, "none" while running
  faults,       \* environment failures so far
  cut,          \* history: the container was truncated after compress
  tamper,       \* history: file altered after compress: "none", "cmp", "meta"
  dpc, di,      \* decompressor: position and record index
  dpos,         \* decompressor: read position in the container
  dnum,         \* decompressor: num_chunks read from the header
  fout,         \* bytes of the reconstructed file
  dret,         \* exit status of decompress, "none" while running
  dlog,         \* history: the kinds of error decompress has met
  wfail,        \* history: a write to the container or the ledger failed
  gpu,          \* the accelerated digest linked in: "cuda", "stub", or "none"
                \* ("zstd": "cuda" stands for both, see try_gpu_sha256)
  gfail,        \* history: ids of the chunks whose accelerated digest call
                \* returned non-zero
  filesize,     \* argument of a call of choose_chunk_size, 0 when not called
  chosen,       \* what that call returned, 0 before it returns
  data,         \* buffer handed to the checksum functions, NULL when none
  digests       \* <<cpu_hash_fnv1a(data), fnv1a32_device(data)>>, <<>> before

vars == <<variant, input, chunk_size, nthreads, num_chunks, mpc, mi, jobs,
          results, next, fpos, lock, wpc, wjob, wbuf, claims, hiDone, ooo, 
          created, fcmp, fmeta, cret, faults, cut, tamper, dpc, di, dpos, dnum,
          fout, dret, dlog, wfail, gpu, gfail, filesize, chosen, data,
          digests>>

mainVars == <<num_chunks, mpc, mi>>
poolVars == <<next, fpos, lock, wpc, wjob, wbuf, claims, hiDone, ooo>>
outVars  == <<created, fcmp, fmeta, cret>>
decVars  == <<cut, tamper, dpc, di, dpos, dnum, fout, dret, dlog>>
callVars == <<filesize, chosen, data, digests>>
runVars  == <<variant, input, chunk_size, nthreads, gpu, callVars>>

Threads == 1..nthreads

\* a process that has not run a statement yet
Fresh ==
  /\ num_chunks = 0
  /\ mpc = "start"
  /\ mi = 0
  /\ jobs = <<>>
  /\ results = <<>>
  /\ next = 0
  /\ fpos = 0
  /\ lock = 0
  /\ wpc = [t \in Threads |-> "new"]
  /\ wjob = [t \in Threads |-> 0]
  /\ wbuf = [t \in Threads |-> NULL]
  /\ claims = <<>>
  /\ hiDone = -1
  /\ ooo = FALSE
  /\ created = {}
  /\ fcmp = <<>>
  /\ fmeta = <<>>
  /\ cret = "none"
  /\ faults = 0
  /\ cut = FALSE
  /\ tamper = "none"
  /\ dpc = "idle"
  /\ di = 0
  /\ dpos = 0
  /\ dnum = 0
  /\ fout = <<>>
  /\ dret = "none"
  /\ dlog = {}
  /\ wfail = FALSE
  /\ gfail = {}

\* chunk_size is the CHUNK_SIZE macro of the build ("lz4", "zstd"); "evp" takes
\* it from choose_chunk_size(filesize), of which every size here is a superset
Init ==
  /\ variant \in {"lz4", "zstd", "evp"}
  /\ input \in Inputs
  /\ chunk_size \in 1..MaxChunk
  /\ nthreads \in 1..MaxWorkers
  /\ gpu \in CASE variant = "lz4"  -> {"cuda", "stub"}
              [] variant = "zstd" -> {"cuda"}
              [] OTHER            -> {"none"}
  /\ filesize = 0 /\ chosen = 0 /\ data = NULL /\ digests = <<>>
  /\ Fresh

\* an environment failure is still within the budget of the run
MayFail == faults < MaxFaults

\* compress returns `code` from position p without touching anything else
Return(code) ==
  /\ cret' = code
  /\ mpc' = "exit"

\* a failed pre-flight step (open or stat of the input, allocation of the
\* descriptor or result table): close the input and return `code`
PreflightGoOn(code) ==
  /\ cret' = cret
  /\ mpc' = "open"

PreflightAbort(code) == Return(code)

\* the stored files are damaged at most once (a failed write, or damage at
\* rest), and only in a run that met no other failure.  Such a run writes the
\* same two files whatever the number of workers, so the damage is explored
\* for the single-worker run
MayDamage == faults = 0 /\ MayFail /\ nthreads = 1

\* fwrite(bytes, ..., fcmp): all of the bytes reach the container, or the
\* write fails after some of them; no caller looks at the result
Fwrite(bytes) ==
  \/ /\ fcmp' = fcmp \o bytes
     /\ UNCHANGED <<faults, wfail>>
  \/ /\ MayDamage
     /\ faults' = faults + 1
     /\ wfail' = TRUE
     /\ \E n \in 0..(Len(bytes) - 1) : fcmp' = fcmp \o SubSeq(bytes, 1, n)

\* one record to the container and its line to the ledger: both written, or
\* one of the two writes fails (fwrite short, or fprintf writes no line)
WriteBoth(bytes, line) ==
  \/ /\ Fwrite(bytes)
     /\ fmeta' = Append(fmeta, line)
  \/ /\ MayDamage
     /\ faults' = faults + 1
     /\ wfail' = TRUE
     /\ fcmp' = fcmp \o bytes
     /\ fmeta' = fmeta

\* ----------------------------------------------------------- chunk planner
\* num_chunks = (total + chunk - 1) / chunk
NumChunksFloor(total, chunk) == total \div chunk

NumChunks(total, chunk) == (total + chunk - 1) \div chunk

\* to_read: chunk, or what is left of the file for the last descriptor
ToRead(total, chunk, i) == Min(chunk, total - i * chunk)

\* "Nothing to compress" / "Empty file"
NoRejectEmpty(total, n) == FALSE

RejectEmpty(total, n) == IF variant = "lz4" THEN n <= 0 ELSE total = 0

\* -------------------------------------------------- thread pool, barrier
NoBarrier(t) == TRUE

\* pthread_join(threads[t]) returns once thread t has returned
JoinReady(t) == wpc[t] = "done"

LockAlways == TRUE

\* pthread_mutex_lock returns only while no thread holds the mutex
CanLock == lock = 0

StillHeldBy(t) == t

\* pthread_mutex_unlock by thread t: no thread holds the mutex
Released(t) == 0

\* for (t = 0; t < nthreads; ++t) pthread_create(&threads[t], ...)
Spawn ==
  /\ mpc = "spawn"
  /\ wpc' = [t \in Threads |-> "pop"]
  /\ mpc' = "join"
  /\ UNCHANGED <<runVars, wfail, gfail, num_chunks, mi, jobs, results, next,
                 fpos, lock, wjob, wbuf, claims, hiDone, ooo, outVars, faults,
                 decVars>>

\* for (t = 0; t < nthreads; ++t) pthread_join(threads[t], NULL)
Join ==
  /\ mpc = "join"
  /\ \A t \in Threads : JoinReady(t)
  /\ mpc' = "open"
  /\ UNCHANGED <<runVars, wfail, gfail, num_chunks, mi, jobs, results,
                 poolVars, outVars, faults, decVars>>

\* jobqueue_pop, first half: lock, test q->next >= q->count, read q->next
jobqueue_pop_read(t) ==
  /\ variant \in {"lz4", "evp"}
  /\ wpc[t] = "pop"
  /\ CanLock
  /\ IF next >= num_chunks
       THEN /\ wpc' = [wpc EXCEPT ![t] = "done"]
            /\ wjob' = [wjob EXCEPT ![t] = 0]
            /\ lock' = Released(t)
       ELSE /\ lock' = t
            /\ wjob' = [wjob EXCEPT ![t] = next]
            /\ wpc' = [wpc EXCEPT ![t] = "inc"]
  /\ UNCHANGED <<runVars, wfail, gfail, mainVars, jobs, results, next, fpos,
                 wbuf, claims, hiDone, ooo, outVars, faults, decVars>>

NextSkipping(old) == old + 2

\* q->next++ (q->next_idx++): the cursor after the pop that read old
NextAfter(old) == old + 1

\* jobqueue_pop, second half: q->next++, unlock, return &q->jobs[old]
jobqueue_pop_take(t) ==
  /\ variant \in {"lz4", "evp"}
  /\ wpc[t] = "inc"
  /\ next' = NextAfter(wjob[t])
  /\ lock' = Released(t)
  /\ claims' = [claims EXCEPT ![wjob[t]] = @ + 1]
  /\ wpc' = [wpc EXCEPT ![t] = "work"]
  /\ UNCHANGED <<runVars, wfail, gfail, mainVars, jobs, results, fpos, wjob,
                 wbuf, hiDone, ooo, outVars, faults, decVars>>

\* a worker has produced the result of chunk id
Completed(id) ==
  /\ hiDone' = IF id > hiDone THEN id ELSE hiDone
  /\ ooo' = (ooo \/ id < hiDone)

\* the writer's loop serializes slot i at step i
WriteIdxReversed(i) == num_chunks - 1 - i

WriteIdx(i) == i

\* --------------------------------------------- "lz4": src/compressor.c
Lz4Job0 == [id |-> 0, offset |-> 0, data |-> NULL, size |-> 0,
            comp_buf |-> NULL, comp_size |-> 0, hash |-> <<0, 0>>]

\* compress_file_streaming up to the job array: fopen, ftell, num_chunks, calloc
Lz4_Start ==
  /\ variant = "lz4" /\ mpc = "start"
  /\ \/ /\ MayFail                      \* fopen / fseek / calloc fails
        /\ faults' = faults + 1
        /\ PreflightAbort("-1")
        /\ UNCHANGED <<num_chunks, mi, jobs, claims>>
     \/ LET n == NumChunks(Len(input), chunk_size)
        IN  /\ num_chunks' = n
            /\ faults' = faults
            /\ IF RejectEmpty(Len(input), n)
                 THEN Return("-1") /\ UNCHANGED <<mi, jobs, claims>>
                 ELSE /\ jobs' = [i \in 0..(n - 1) |-> Lz4Job0]
                      /\ claims' = [i \in 0..(n - 1) |-> 0]
                      /\ mpc' = "load" /\ mi' = 0 /\ cret' = cret
  /\ UNCHANGED <<runVars, wfail, gfail, results, next, fpos, lock, wpc, wjob,
                 wbuf, hiDone, ooo, created, fcmp, fmeta, decVars>>

\* gpu_hash_chunk(buf, len, &h) with h = h0 before the call, as the outcomes
\* [res, out, fault]: the stub stores 0 and returns -1; the CUDA build returns
\* 0 with the device hash, or fails before the copy back (h untouched) or in
\* it (h untouched or overwritten in part)
gpu_hash_chunk(buf, h0) ==
  IF gpu = "stub"
    THEN {[res |-> -1, out |-> <<0, 0>>, fault |-> FALSE]}
    ELSE {[res |-> 0, out |-> fnv1a32_device(buf), fault |-> FALSE],
          [res |-> -1, out |-> h0, fault |-> TRUE]} \cup
         {[res |-> -5, out |-> o, fault |-> TRUE] : o \in {h0} \cup HashGarbage}

\* uint32_t h = 0; gpu_hash_chunk; cpu_hash_fnv1a when it returns non-zero
Lz4Hash(g, buf) == Fallback(g, cpu_hash_fnv1a(buf))

\* one iteration of the loading loop: malloc, fread, hash
Lz4_Load ==
  /\ variant = "lz4" /\ mpc = "load" /\ mi < num_chunks
  /\ \/ /\ MayFail                      \* malloc fails or fread is short
        /\ faults' = faults + 1
        /\ Return("-1")
        /\ UNCHANGED <<mi, jobs, fpos, gfail>>
     \/ LET to_read == ToRead(Len(input), chunk_size, mi)
            buf == Bytes(input, fpos, to_read)
        IN  /\ \E g \in gpu_hash_chunk(buf, <<0, 0>>) :
                 /\ g.fault => MayFail
                 /\ faults' = faults + (IF g.fault THEN 1 ELSE 0)
                 /\ gfail' = IF g.res # 0 THEN gfail \cup {mi} ELSE gfail
                 /\ jobs' = [jobs EXCEPT ![mi] =
                              [id |-> mi, offset |-> fpos, data |-> buf,
                               size |-> to_read, comp_buf |-> NULL,
                               comp_size |-> 0, hash |-> Lz4Hash(g, buf)]]
            /\ fpos' = fpos + to_read
            /\ mi' = mi + 1
            /\ UNCHANGED <<mpc, cret>>
  /\ UNCHANGED <<runVars, wfail, num_chunks, results, next, lock, wpc, wjob,
                 wbuf, claims, hiDone, ooo, created, fcmp, fmeta, decVars>>

\* fclose(fin); jobqueue_init(&g_queue, jobs, num_chunks)
LoadDone ==
  /\ variant \in {"lz4", "evp"} /\ mpc = "load" /\ mi = num_chunks
  /\ next' = 0
  /\ mpc' = "spawn" /\ mi' = 0
  /\ UNCHANGED <<runVars, wfail, gfail, num_chunks, jobs, results, fpos, lock,
                 wpc, wjob, wbuf, claims, hiDone, ooo, outVars, faults,
                 decVars>>

\* worker_thread: LZ4_compressBound, malloc, LZ4_compress_default
Lz4_Work(t) ==
  /\ variant = "lz4" /\ wpc[t] = "work"
  /\ LET j == wjob[t]
     IN \/ /\ MayFail                   \* malloc(maxDst) fails
           /\ faults' = faults + 1
           /\ jobs' = [jobs EXCEPT ![j].comp_size = -1]
        \/ /\ MayFail                   \* LZ4_compress_default returns <= 0
           /\ faults' = faults + 1
           /\ jobs' = [jobs EXCEPT ![j].comp_size = -1, ![j].comp_buf = <<>>]
        \/ /\ faults' = faults
           /\ LET c == CodecCompress(jobs[j].data)
              IN  jobs' = [jobs EXCEPT ![j].comp_size = Len(c), ![j].comp_buf = c]
  /\ Completed(wjob[t])
  /\ wpc' = [wpc EXCEPT ![t] = "pop"]
  /\ wjob' = [wjob EXCEPT ![t] = 0]          \* job is dead from here
  /\ UNCHANGED <<runVars, wfail, gfail, mainVars, results, next, fpos, lock,
                 wbuf, claims, outVars, decVars>>

\* fopen(out_cmp, "wb"); fopen(out_meta, "w"); if (!fcmp || !fmeta) return -1
Lz4_Open ==
  /\ variant = "lz4" /\ mpc = "open"
  /\ \/ /\ MayFail
        /\ faults' = faults + 1
        /\ \E made \in {{}, {"cmp"}, {"meta"}} : created' = created \cup made
        /\ Return("-1")
     \/ /\ created' = created \cup {"cmp", "meta"}
        /\ mpc' = "header"
        /\ UNCHANGED <<cret, faults>>
  /\ UNCHANGED <<runVars, wfail, gfail, num_chunks, mi, jobs, results,
                 poolVars, fcmp, fmeta, decVars>>

\* header: total_size (8 bytes), chunk_size (8), num_chunks (4)
Lz4_Header ==
  /\ variant = "lz4" /\ mpc = "header"
  /\ Fwrite(U64(Len(input)) \o U64(chunk_size) \o I32(num_chunks))
  /\ mpc' = "write" /\ mi' = 0
  /\ UNCHANGED <<runVars, gfail, num_chunks, jobs, results, poolVars, created,
                 fmeta, cret, decVars>>

\* the bytes of one chunk: comp_size (4), then the compressed data, or the
\* marker -1 (4), the raw length (8) and the raw bytes
Lz4Record(j) ==
  I32(j.comp_size) \o
    (IF j.comp_size > 0 THEN Bytes(j.comp_buf, 0, j.comp_size)
     ELSE I32(-1) \o U64(j.size) \o j.data)

\* one iteration of "write chunks in order"
Lz4_Write ==
  /\ variant = "lz4" /\ mpc = "write" /\ mi < num_chunks
  /\ LET j == jobs[WriteIdx(mi)]
     IN  WriteBoth(Lz4Record(j), <<mi, j.size, j.comp_size, j.hash>>)
  /\ mi' = mi + 1
  /\ UNCHANGED <<runVars, gfail, num_chunks, mpc, jobs, results, poolVars,
                 created, cret, decVars>>

\* fclose(fcmp); fclose(fmeta); return 0
Lz4_Finish ==
  /\ variant = "lz4" /\ mpc = "write" /\ mi = num_chunks
  /\ Return("0")
  /\ UNCHANGED <<runVars, wfail, gfail, num_chunks, mi, jobs, results,
                 poolVars, created, fcmp, fmeta, faults, decVars>>


\* --------------------------------------- "evp": src/unnamed/part_002, main
EvpJob0 == [id |-> 0, offset |-> 0, data |-> NULL, orig_size |-> 0,
            cdata |-> NULL, csize |-> 0, sha256 |-> ShaZero]

\* main up to the opened input: stat, filesize == 0, num_chunks, calloc, fopen
Evp_Start ==
  /\ variant = "evp" /\ mpc = "start"
  /\ \/ /\ MayFail                      \* stat / calloc / fopen fails
        /\ faults' = faults + 1
        /\ PreflightAbort("1")
        /\ UNCHANGED <<num_chunks, mi, jobs, claims>>
     \/ LET n == NumChunks(Len(input), chunk_size)
        IN  /\ faults' = faults
            /\ IF RejectEmpty(Len(input), n)
                 THEN Return("1") /\ UNCHANGED <<num_chunks, mi, jobs, claims>>
                 ELSE /\ num_chunks' = n
                      /\ jobs' = [i \in 0..(n - 1) |-> EvpJob0]
                      /\ claims' = [i \in 0..(n - 1) |-> 0]
                      /\ mpc' = "load" /\ mi' = 0 /\ cret' = cret
  /\ UNCHANGED <<runVars, wfail, gfail, results, next, fpos, lock, wpc, wjob,
                 wbuf, hiDone, ooo, created, fcmp, fmeta, decVars>>

\* one iteration of "read the file chunk by chunk into jobs"
Evp_Load ==
  /\ variant = "evp" /\ mpc = "load" /\ mi < num_chunks
  /\ \/ /\ MayFail                      \* malloc fails or fread is short
        /\ faults' = faults + 1
        /\ Return("1")
        /\ UNCHANGED <<mi, jobs, fpos>>
     \/ LET toread == ToRead(Len(input), chunk_size, mi)
        IN  /\ jobs' = [jobs EXCEPT ![mi] =
                          [id |-> mi, offset |-> fpos,
                           data |-> Bytes(input, fpos, toread),
                           orig_size |-> toread, cdata |-> NULL, csize |-> 0,
                           sha256 |-> ShaZero]]
            /\ fpos' = fpos + toread
            /\ mi' = mi + 1
            /\ UNCHANGED <<mpc, cret, faults>>
  /\ UNCHANGED <<runVars, wfail, gfail, num_chunks, results, next, lock, wpc,
                 wjob, wbuf, claims, hiDone, ooo, created, fcmp, fmeta,
                 decVars>>

\* worker_thread: compute_sha256_evp, ZSTD_createCCtx, malloc, ZSTD_compressCCtx
Evp_Work(t) ==
  /\ variant = "evp" /\ wpc[t] = "work"
  /\ LET j   == wjob[t]
         sha == Sha256(jobs[j].data)
     IN \/ /\ MayFail      \* no context, no buffer, or ZSTD_isError(csz)
           /\ faults' = faults + 1
           /\ jobs' = [jobs EXCEPT ![j].sha256 = sha, ![j].cdata = NULL,
                                   ![j].csize = 0]
        \/ /\ faults' = faults
           /\ LET c == CodecCompress(jobs[j].data)
              IN  jobs' = [jobs EXCEPT ![j].sha256 = sha, ![j].cdata = c,
                                      ![j].csize = Len(c)]
  /\ Completed(wjob[t])
  /\ wpc' = [wpc EXCEPT ![t] = "pop"]
  /\ wjob' = [wjob EXCEPT ![t] = 0]          \* job is dead from here
  /\ UNCHANGED <<runVars, wfail, gfail, mainVars, results, next, fpos, lock,
                 wbuf, claims, outVars, decVars>>

\* fopen(out_cmp); if (!fcmp) return 1; fopen(out_meta); if (!fmeta) return 1
Evp_Open ==
  /\ variant = "evp" /\ mpc = "open"
  /\ \/ /\ MayFail
        /\ faults' = faults + 1
        /\ \E made \in {{}, {"cmp"}} : created' = created \cup made
        /\ Return("1")
     \/ /\ created' = created \cup {"cmp", "meta"}
        /\ mpc' = "header"
        /\ UNCHANGED <<cret, faults>>
  /\ UNCHANGED <<runVars, wfail, gfail, num_chunks, mi, jobs, results,
                 poolVars, fcmp, fmeta, decVars>>

\* header: original size (8), chunk_size (8), num_chunks (4)
Evp_Header ==
  /\ variant = "evp" /\ mpc = "header"
  /\ Fwrite(U64(Len(input)) \o U64(chunk_size) \o I32(num_chunks))
  /\ mpc' = "write" /\ mi' = 0
  /\ UNCHANGED <<runVars, gfail, num_chunks, jobs, results, poolVars, created,
                 fmeta, cret, decVars>>

\* the bytes of one chunk: comp_size (8), then the data if comp_size > 0
EvpRecord(j) ==
  U64(j.csize) \o (IF j.csize > 0 THEN Bytes(j.cdata, 0, j.csize) ELSE <<>>)

\* one iteration of the record loop: comp_size (8), data, one ledger line
Evp_Write ==
  /\ variant = "evp" /\ mpc = "write" /\ mi < num_chunks
  /\ LET j == jobs[WriteIdx(mi)]
     IN  WriteBoth(EvpRecord(j), <<j.id, j.orig_size, j.csize, j.sha256>>)
  /\ mi' = mi + 1
  /\ UNCHANGED <<runVars, gfail, num_chunks, mpc, jobs, results, poolVars,
                 created, cret, decVars>>

\* fclose(fcmp); fclose(fmeta); return 0
Evp_Finish ==
  /\ variant = "evp" /\ mpc = "write" /\ mi = num_chunks
  /\ Return("0")
  /\ UNCHANGED <<runVars, wfail, gfail, num_chunks, mi, jobs, results,
                 poolVars, created, fcmp, fmeta, faults, decVars>>

\* ------------- "zstd": src/decompressor.c:302-588, compress_file_streaming
ZstdRes0 == [id |-> 0, orig_size |-> 0, comp_size |-> 0, sha256 |-> ShaZero,
             data |-> NULL]

Magic == <<90, 83, 84, 68, 67, 80, 49>>     \* "ZSTDCP1"

\* compress_file_streaming up to the results array: fopen, get_filesize, calloc
Zstd_Start ==
  /\ variant = "zstd" /\ mpc = "start"
  /\ \/ /\ MayFail                      \* fopen / calloc fails
        /\ faults' = faults + 1
        /\ PreflightAbort("-1")
        /\ UNCHANGED <<num_chunks, mi, results, claims>>
     \/ LET n == NumChunks(Len(input), chunk_size)
        IN  /\ faults' = faults
            /\ IF RejectEmpty(Len(input), n)
                 THEN Return("-1")
                      /\ UNCHANGED <<num_chunks, mi, results, claims>>
                 ELSE /\ num_chunks' = n
                      /\ results' = [i \in 0..(n - 1) |-> ZstdRes0]
                      /\ claims' = [i \in 0..(n - 1) |-> 0]
                      /\ mpc' = "spawn" /\ mi' = 0 /\ cret' = cret
  /\ UNCHANGED <<runVars, wfail, gfail, jobs, next, fpos, lock, wpc, wjob, wbuf,
                 hiDone, ooo, created, fcmp, fmeta, decVars>>

\* chunk_id = read_offset / chunk_size, clamped to total_chunks - 1
ChunkId(read_offset) ==
  IF read_offset \div chunk_size >= num_chunks THEN num_chunks - 1
  ELSE read_offset \div chunk_size

\* worker_func, under file_lock: curr = ftell(fin), file_end, "no more chunks"
Zstd_Tell(t) ==
  /\ variant = "zstd" /\ wpc[t] = "pop"
  /\ CanLock
  /\ IF fpos >= Len(input)
       THEN /\ wpc' = [wpc EXCEPT ![t] = "done"]
            /\ wjob' = [wjob EXCEPT ![t] = 0]
            /\ lock' = Released(t)
       ELSE /\ lock' = t
            /\ wjob' = [wjob EXCEPT ![t] = fpos]
            /\ wpc' = [wpc EXCEPT ![t] = "inc"]
  /\ UNCHANGED <<runVars, wfail, gfail, mainVars, jobs, results, next, fpos,
                 wbuf, claims, hiDone, ooo, outVars, faults, decVars>>

\* worker_func, under file_lock: to_read, malloc, fread, unlock
Zstd_Read(t) ==
  /\ variant = "zstd" /\ wpc[t] = "inc"
  /\ lock' = Released(t)
  /\ LET curr    == wjob[t]
         to_read == Min(chunk_size, Len(input) - curr)
         avail   == Min(to_read, Len(input) - fpos)
     IN \/ /\ MayFail                   \* malloc(to_read) fails
           /\ faults' = faults + 1
           /\ wpc' = [wpc EXCEPT ![t] = "done"]
           /\ UNCHANGED <<fpos, wbuf, claims>>
        \/ /\ MayFail                   \* fread returns fewer bytes
           /\ faults' = faults + 1
           /\ \E r \in 0..(avail - 1) :
                /\ fpos' = fpos + r
                /\ IF r = 0
                     THEN /\ wpc' = [wpc EXCEPT ![t] = "done"]
                          /\ UNCHANGED <<wbuf, claims>>
                     ELSE /\ wbuf' = [wbuf EXCEPT ![t] = Bytes(input, fpos, r)]
                          /\ claims' = [claims EXCEPT ![ChunkId(curr)] = @ + 1]
                          /\ wpc' = [wpc EXCEPT ![t] = "work"]
        \/ /\ faults' = faults
           /\ fpos' = fpos + avail
           /\ IF avail = 0
                THEN /\ wpc' = [wpc EXCEPT ![t] = "done"]
                     /\ UNCHANGED <<wbuf, claims>>
                ELSE /\ wbuf' = [wbuf EXCEPT ![t] = Bytes(input, fpos, avail)]
                     /\ claims' = [claims EXCEPT ![ChunkId(curr)] = @ + 1]
                     /\ wpc' = [wpc EXCEPT ![t] = "work"]
  /\ wjob' = [wjob EXCEPT ![t] = IF wpc'[t] = "done" THEN 0 ELSE @]  \* local dies
  /\ UNCHANGED <<runVars, wfail, gfail, mainVars, jobs, results, next, hiDone,
                 ooo, outVars, decVars>>

\* try_gpu_sha256(buf, r, sha) with sha not yet written, as the outcomes
\* [res, out, fault].  The CUDA build links a function declared int here and
\* defined void with an empty body: the caller reads whatever the return
\* register holds, non-zero or (counted as a failure of the run) zero.  The
\* stub returns -1, which is one of these outcomes, so the stub build has no
\* behaviour of its own.  Neither writes sha.
try_gpu_sha256 ==
  {[res |-> r, out |-> u, fault |-> (r = 0)] : r \in {0, -1}, u \in ShaGarbage}

\* worker_func after the read: digest, ZSTD_createCCtx, malloc, compress,
\* chunk_id, fill results[chunk_id]
Zstd_Work(t) ==
  /\ variant = "zstd" /\ wpc[t] = "work"
  /\ \E g \in try_gpu_sha256 :
      LET buf  == wbuf[t]
          r    == Len(buf)
          id   == ChunkId(wjob[t])
          sha  == Fallback(g, Sha256(buf))
          c    == CodecCompress(buf)
          slot == [id |-> id, orig_size |-> r, comp_size |-> 0,
                   sha256 |-> sha, data |-> NULL]
          f0   == faults + (IF g.fault THEN 1 ELSE 0)
      IN /\ f0 <= MaxFaults
         /\ gfail' = IF g.res # 0 THEN gfail \cup {id} ELSE gfail
         /\ \/ /\ f0 < MaxFaults         \* ZSTD_createCCtx / malloc(maxc) fails
               /\ faults' = f0 + 1
               /\ wpc' = [wpc EXCEPT ![t] = "done"]
               /\ UNCHANGED <<results, hiDone, ooo>>
            \/ /\ f0 < MaxFaults         \* ZSTD_isError(csize): store raw
               /\ faults' = f0 + 1
               /\ results' = [results EXCEPT ![id] =
                                [slot EXCEPT !.comp_size = r,
                                             !.data = <<1>> \o buf]]
               /\ Completed(id)
               /\ wpc' = [wpc EXCEPT ![t] = "pop"]
            \/ /\ f0 < MaxFaults         \* malloc(1 + csize) fails
               /\ faults' = f0 + 1
               /\ results' = [results EXCEPT ![id] =
                                [slot EXCEPT !.comp_size = Len(c)]]
               /\ wpc' = [wpc EXCEPT ![t] = "done"]
               /\ UNCHANGED <<hiDone, ooo>>
            \/ /\ f0 + 2 <= MaxFaults    \* ZSTD_isError, then malloc(1 + r) fails
               /\ faults' = f0 + 2
               /\ results' = [results EXCEPT ![id] = slot]
               /\ wpc' = [wpc EXCEPT ![t] = "done"]
               /\ UNCHANGED <<hiDone, ooo>>
            \/ /\ faults' = f0
               /\ results' = [results EXCEPT ![id] =
                                [slot EXCEPT !.comp_size = Len(c),
                                             !.data = <<0>> \o c]]
               /\ Completed(id)
               /\ wpc' = [wpc EXCEPT ![t] = "pop"]
  /\ wbuf' = [wbuf EXCEPT ![t] = NULL]       \* free(buf)
  /\ wjob' = [wjob EXCEPT ![t] = 0]          \* read_offset is dead from here
  /\ UNCHANGED <<runVars, wfail, mainVars, jobs, next, fpos, lock, claims,
                 outVars, decVars>>

\* fopen(out_cmp, "wb"); if (!fcmp) return -1
Zstd_Open ==
  /\ variant = "zstd" /\ mpc = "open"
  /\ \/ /\ MayFail
        /\ faults' = faults + 1
        /\ Return("-1")
        /\ UNCHANGED created
     \/ /\ created' = created \cup {"cmp"}
        /\ mpc' = "header"
        /\ UNCHANGED <<cret, faults>>
  /\ UNCHANGED <<runVars, wfail, gfail, num_chunks, mi, jobs, results,
                 poolVars, fcmp, fmeta, decVars>>

\* header: magic + total_size (8) + chunk_size (8) + num_chunks (8)
Zstd_Header ==
  /\ variant = "zstd" /\ mpc = "header"
  /\ Fwrite(Magic \o U64(Len(input)) \o U64(chunk_size) \o U64(num_chunks))
  /\ mpc' = "write" /\ mi' = 0
  /\ UNCHANGED <<runVars, gfail, num_chunks, jobs, results, poolVars, created,
                 fmeta, cret, decVars>>

\* the bytes of one chunk entry: flag (1), orig_size (8), stored_size (8), data
ZstdRecord(res) ==
  LET flag == IF res.data # NULL /\ res.data[1] = 1 THEN 1 ELSE 0
  IN  <<flag>> \o U64(res.orig_size) \o U64(res.comp_size) \o
        (IF res.data # NULL THEN Bytes(res.data, 1, res.comp_size) ELSE <<>>)

\* one iteration of "Write chunk entries"
Zstd_Write ==
  /\ variant = "zstd" /\ mpc = "write" /\ mi < num_chunks
  /\ LET res == results[WriteIdx(mi)]
     IN  Fwrite(ZstdRecord(res))
  /\ mi' = mi + 1
  /\ UNCHANGED <<runVars, gfail, num_chunks, mpc, jobs, results, poolVars,
                 created, fmeta, cret, decVars>>

\* the ledger as the loop of fprintf writes it: one line per chunk
ZstdLedger ==
  [k \in 1..num_chunks |->
     <<k - 1, results[k - 1].orig_size, results[k - 1].comp_size,
       results[k - 1].sha256>>]

\* fclose(fcmp); fopen(out_meta, "w"); one line per chunk; return 0
Zstd_Meta ==
  /\ variant = "zstd" /\ mpc = "write" /\ mi = num_chunks
  /\ \/ /\ MayFail                      \* fopen(out_meta) fails
        /\ faults' = faults + 1
        /\ Return("-1")
        /\ UNCHANGED <<created, fmeta, wfail>>
     \/ /\ created' = created \cup {"meta"}
        /\ fmeta' = ZstdLedger
        /\ Return("0")
        /\ UNCHANGED <<faults, wfail>>
     \/ /\ MayDamage /\ num_chunks > 0  \* one fprintf writes no line
        /\ faults' = faults + 1
        /\ wfail' = TRUE
        /\ created' = created \cup {"meta"}
        /\ \E k \in 1..num_chunks :
             fmeta' = SubSeq(ZstdLedger, 1, k - 1) \o
                      SubSeq(ZstdLedger, k + 1, num_chunks)
        /\ Return("0")
  /\ UNCHANGED <<runVars, gfail, num_chunks, mi, jobs, results, poolVars, fcmp,
                 decVars>>


\* ------------------------------------------------ the container, at rest
\* the container loses its tail between compress and decompress
Truncate ==
  /\ cret = "0" /\ dpc = "idle" /\ ~cut /\ tamper = "none"
  /\ MayDamage
  /\ faults' = faults + 1
  /\ \E n \in 0..(Len(fcmp) - 1) : fcmp' = SubSeq(fcmp, 1, n)
  /\ cut' = TRUE
  /\ UNCHANGED <<runVars, wfail, gfail, mainVars, jobs, results, poolVars,
                 created, fmeta, cret, tamper, dpc, di, dpos, dnum, fout, dret,
                 dlog>>

\* a damaged byte: its value moves to the next one
Flip(b) == (b + 1) % 256

\* one byte of the container is damaged between compress and decompress
Corrupt ==
  /\ cret = "0" /\ dpc = "idle" /\ ~cut /\ tamper = "none"
  /\ MayDamage
  /\ faults' = faults + 1
  /\ \E p \in 1..Len(fcmp) : fcmp' = [fcmp EXCEPT ![p] = Flip(@)]
  /\ tamper' = "cmp"
  /\ UNCHANGED <<runVars, wfail, gfail, mainVars, jobs, results, poolVars,
                 created, fmeta, cret, cut, dpc, di, dpos, dnum, fout, dret,
                 dlog>>

\* a digest that differs from d
OtherDigest(d) ==
  IF variant = "lz4" THEN <<d[1], (d[2] + 1) % 65536>>
  ELSE [zero |-> FALSE, of |-> <<0>> \o d.of]

\* the ledgers that differ from the written one: no line at all, or one line
\* with another id, original length, stored length or digest
Ledgers ==
  {<<>>} \cup
  {[fmeta EXCEPT ![k][1] = @ + 1] : k \in 1..Len(fmeta)} \cup
  UNION {{[fmeta EXCEPT ![k][f] = n] :
            n \in {fmeta[k][f] + 1, fmeta[k][f] - 1} \ {-1}} :
         k \in 1..Len(fmeta), f \in {2, 3}} \cup
  {[fmeta EXCEPT ![k][4] = OtherDigest(@)] : k \in 1..Len(fmeta)}

\* the ledger is missing or altered between compress and decompress
LedgerTamper ==
  /\ cret = "0" /\ dpc = "idle" /\ ~cut /\ tamper = "none"
  /\ MayDamage
  /\ faults' = faults + 1
  /\ \E l \in Ledgers : fmeta' = l
  /\ tamper' = "meta"
  /\ UNCHANGED <<runVars, wfail, gfail, mainVars, jobs, results, poolVars,
                 created, fcmp, cret, cut, dpc, di, dpos, dnum, fout, dret,
                 dlog>>

\* n more bytes can be read at the decompressor's position plus `skip`
Have(skip, n) == n <= Len(fcmp) - dpos - skip

\* decompress returns `code`
DecReturn(code) ==
  /\ dret' = code
  /\ dpc' = "exit"

\* the record loop is left on an error of this kind; decompress then returns 0
Break(kind) ==
  /\ DecReturn("0")
  /\ dlog' = dlog \cup {kind}

\* the record loop has run num_chunks times: fclose, return 0
Dec_Finish ==
  /\ dpc \in {"loop", "loop2"} /\ di >= dnum
  /\ DecReturn("0")
  /\ UNCHANGED <<runVars, wfail, gfail, mainVars, jobs, results, poolVars,
                 outVars, faults, cut, tamper, di, dpos, dnum, fout, dlog>>

\* ---------- "zstd": src/decompressor.c:106-168, decompress_container
MagicAny(magic) == TRUE

\* strncmp(magic, "ZSTDCP1", 7) == 0
MagicOk(magic) == magic = Magic

ZDec_Open ==
  /\ variant = "zstd" /\ cret = "0" /\ dpc = "idle"
  /\ \/ /\ MayFail                      \* fopen(cmp_path) or fopen(outpath) fails
        /\ faults' = faults + 1
        /\ DecReturn("-1")
        /\ UNCHANGED <<created, dpos, dnum>>
     \/ /\ faults' = faults
        /\ IF Len(fcmp) < 31 \/ ~MagicOk(Bytes(fcmp, 0, 7))
             THEN DecReturn("-1") /\ UNCHANGED <<created, dpos, dnum>>
             ELSE /\ dnum' = U64Val(Bytes(fcmp, 23, 8))
                  /\ dpos' = 31
                  /\ created' = created \cup {"out"}
                  /\ dpc' = "loop" /\ dret' = dret
  /\ UNCHANGED <<runVars, wfail, gfail, mainVars, jobs, results, poolVars,
                 fcmp, fmeta, cret, cut, tamper, di, fout, dlog>>

\* one iteration of the record loop: flag, orig_size, stored_size, payload
ZDec_Record ==
  /\ variant = "zstd" /\ dpc = "loop" /\ di < dnum
  /\ LET flag        == fcmp[dpos + 1]
         orig_size   == U64Val(Bytes(fcmp, dpos + 1, 8))
         stored_size == U64Val(Bytes(fcmp, dpos + 9, 8))
         payload     == Bytes(fcmp, dpos + 17, stored_size)
         dec         == IF flag = 1 THEN payload
                        ELSE ZSTD_decompress(payload, orig_size)
     IN \/ /\ MayFail                   \* malloc fails: break
           /\ faults' = faults + 1
           /\ Break("oom")
           /\ UNCHANGED <<di, dpos, fout>>
        \/ /\ faults' = faults
           /\ IF ~Have(0, 17) \/ ~Have(17, stored_size)
                THEN Break("read") /\ UNCHANGED <<di, dpos, fout>>
                ELSE IF dec = CodecError
                THEN Break("codec") /\ UNCHANGED <<di, dpos, fout>>
                ELSE /\ fout' = fout \o dec
                     /\ dpos' = dpos + 17 + stored_size
                     /\ di' = di + 1
                     /\ UNCHANGED <<dpc, dret, dlog>>
  /\ UNCHANGED <<runVars, wfail, gfail, mainVars, jobs, results, poolVars,
                 outVars, cut, tamper, dnum>>

\* ------------------- "lz4": src/decompressor.c:11-82, decompress_file
LDec_Open ==
  /\ variant = "lz4" /\ cret = "0" /\ dpc = "idle"
  /\ \/ /\ MayFail                      \* fopen of cmp, meta or output fails
        /\ faults' = faults + 1
        /\ DecReturn("-1")
        /\ UNCHANGED <<created, dpos, dnum>>
     \/ /\ faults' = faults
        /\ IF Len(fcmp) < 20
             THEN DecReturn("-1") /\ UNCHANGED <<created, dpos, dnum>>
             ELSE /\ dnum' = I32Val(Bytes(fcmp, 16, 4))
                  /\ dpos' = 20
                  /\ created' = created \cup {"out"}
                  /\ dpc' = "loop" /\ dret' = dret
  /\ UNCHANGED <<runVars, wfail, gfail, mainVars, jobs, results, poolVars,
                 fcmp, fmeta, cret, cut, tamper, di, fout, dlog>>

\* one iteration: ledger line, comp_size field, raw block or LZ4 block
LDec_Record ==
  /\ variant = "lz4" /\ dpc = "loop" /\ di < dnum
  /\ LET orig_size    == fmeta[di + 1][2]
         cs_from_file == I32Val(Bytes(fcmp, dpos, 4))
         orig_s       == U64Val(Bytes(fcmp, dpos + 4, 8))
         comp         == Bytes(fcmp, dpos + 4, cs_from_file)
         dec          == LZ4_decompress_safe(comp, orig_size)
     IN \/ /\ MayFail                   \* malloc fails: break
           /\ faults' = faults + 1
           /\ Break("oom")
           /\ UNCHANGED <<di, dpos, fout>>
        \/ /\ faults' = faults
           /\ IF di + 1 > Len(fmeta)
                THEN Break("meta") /\ UNCHANGED <<di, dpos, fout>>
                ELSE IF ~Have(0, 4)
                THEN Break("read") /\ UNCHANGED <<di, dpos, fout>>
                ELSE IF cs_from_file = -1
                THEN IF ~Have(4, 8) \/ ~Have(12, orig_s)
                     THEN Break("read") /\ UNCHANGED <<di, dpos, fout>>
                     ELSE /\ fout' = fout \o Bytes(fcmp, dpos + 12, orig_s)
                          /\ dpos' = dpos + 12 + orig_s
                          /\ di' = di + 1
                          /\ UNCHANGED <<dpc, dret, dlog>>
                ELSE IF cs_from_file <= 0 \/ ~Have(4, cs_from_file)
                THEN Break("read") /\ UNCHANGED <<di, dpos, fout>>
                ELSE /\ fout' = IF dec = CodecError THEN fout ELSE fout \o dec
                     /\ dlog' = IF dec = CodecError THEN dlog \cup {"codec"}
                                ELSE dlog
                     /\ dpos' = dpos + 4 + cs_from_file
                     /\ di' = di + 1
                     /\ UNCHANGED <<dpc, dret>>
  /\ UNCHANGED <<runVars, wfail, gfail, mainVars, jobs, results, poolVars,
                 outVars, cut, tamper, dnum>>

\* -------- "lz4", second reader: src/decompressor.c:599-658, decompress_file
L2Dec_Open ==
  /\ variant = "lz4" /\ cret = "0" /\ dpc = "idle"
  /\ \/ /\ MayFail                      \* fopen of cmp, meta or output fails
        /\ faults' = faults + 1
        /\ DecReturn("-1")
        /\ UNCHANGED <<created, dpos, dnum>>
     \/ /\ faults' = faults
        /\ IF Len(fcmp) < 20
             THEN DecReturn("-1") /\ UNCHANGED <<created, dpos, dnum>>
             ELSE /\ dnum' = I32Val(Bytes(fcmp, 16, 4))
                  /\ dpos' = 20
                  /\ created' = created \cup {"out"}
                  /\ dpc' = "loop2" /\ dret' = dret
  /\ UNCHANGED <<runVars, wfail, gfail, mainVars, jobs, results, poolVars,
                 fcmp, fmeta, cret, cut, tamper, di, fout, dlog>>

\* one iteration: ledger line, "skip" when its comp_size <= 0, else the size
\* field, comp_size bytes as the ledger counts them, LZ4_decompress_safe
L2Dec_Record ==
  /\ variant = "lz4" /\ dpc = "loop2" /\ di < dnum
  /\ LET orig_size == fmeta[di + 1][2]
         cs        == fmeta[di + 1][3]
         read_cs   == I32Val(Bytes(fcmp, dpos, 4))
         comp_buf  == Bytes(fcmp, dpos + 4, cs)
         dec       == LZ4_decompress_safe(comp_buf, orig_size)
     IN \/ /\ MayFail                   \* malloc fails: break
           /\ faults' = faults + 1
           /\ Break("oom")
           /\ UNCHANGED <<di, dpos, fout>>
        \/ /\ faults' = faults
           /\ IF di + 1 > Len(fmeta)
                THEN Break("meta") /\ UNCHANGED <<di, dpos, fout>>
                ELSE IF cs <= 0
                THEN /\ di' = di + 1              \* continue
                     /\ UNCHANGED <<dpc, dret, dlog, dpos, fout>>
                ELSE IF ~Have(0, 4) \/ ~Have(4, cs)
                THEN Break("read") /\ UNCHANGED <<di, dpos, fout>>
                ELSE /\ fout' = IF dec = CodecError THEN fout ELSE fout \o dec
                     /\ dlog' = (IF dec = CodecError THEN dlog \cup {"codec"}
                                 ELSE dlog)
                                \cup (IF read_cs # cs THEN {"size"} ELSE {})
                     /\ dpos' = dpos + 4 + cs
                     /\ di' = di + 1
                     /\ UNCHANGED <<dpc, dret>>
  /\ UNCHANGED <<runVars, wfail, gfail, mainVars, jobs, results, poolVars,
                 outVars, cut, tamper, dnum>>

\* ------------------------------ "evp": src/decompressor.c:196-285, main
EDec_Open ==
  /\ variant = "evp" /\ cret = "0" /\ dpc = "idle"
  /\ \/ /\ MayFail                      \* fopen of cmp, meta or output fails
        /\ faults' = faults + 1
        /\ DecReturn("1")
        /\ UNCHANGED <<created, dpos, dnum>>
     \/ /\ faults' = faults
        /\ IF Len(fcmp) < 20
             THEN DecReturn("1") /\ UNCHANGED <<created, dpos, dnum>>
             ELSE /\ dnum' = U32Val(Bytes(fcmp, 16, 4))
                  /\ dpos' = 20
                  /\ created' = created \cup {"out"}
                  /\ dpc' = "loop" /\ dret' = dret
  /\ UNCHANGED <<runVars, wfail, gfail, mainVars, jobs, results, poolVars,
                 fcmp, fmeta, cret, cut, tamper, di, fout, dlog>>

\* one iteration: comp_size (8), ledger line, compressed bytes, ZSTD_decompress
EDec_Record ==
  /\ variant = "evp" /\ dpc = "loop" /\ di < dnum
  /\ LET csize        == U64Val(Bytes(fcmp, dpos, 8))
         orig_sz_meta == fmeta[di + 1][2]
         cbuf         == Bytes(fcmp, dpos + 8, csize)
         r            == ZSTD_decompress(cbuf, orig_sz_meta)
     IN \/ /\ MayFail                   \* malloc fails: break
           /\ faults' = faults + 1
           /\ Break("oom")
           /\ UNCHANGED <<di, dpos, fout>>
        \/ /\ faults' = faults
           /\ IF ~Have(0, 8)
                THEN Break("read") /\ UNCHANGED <<di, dpos, fout>>
                ELSE IF di + 1 > Len(fmeta)
                THEN Break("meta") /\ UNCHANGED <<di, dpos, fout>>
                ELSE IF ~Have(8, csize)
                THEN Break("read") /\ UNCHANGED <<di, dpos, fout>>
                ELSE IF csize = 0
                THEN /\ dpos' = dpos + 8          \* "here skip": continue
                     /\ di' = di + 1
                     /\ UNCHANGED <<dpc, dret, dlog, fout>>
                ELSE IF r = CodecError
                THEN Break("codec") /\ UNCHANGED <<di, dpos, fout>>
                ELSE /\ fout' = fout \o r
                     /\ dpos' = dpos + 8 + csize
                     /\ di' = di + 1
                     /\ UNCHANGED <<dpc, dret, dlog>>
  /\ UNCHANGED <<runVars, wfail, gfail, mainVars, jobs, results, poolVars,
                 outVars, cut, tamper, dnum>>

Next ==
  \/ Spawn
  \/ Join
  \/ \E t \in Threads : jobqueue_pop_read(t)
  \/ \E t \in Threads : jobqueue_pop_take(t)
  \/ Lz4_Start
  \/ Lz4_Load
  \/ LoadDone
  \/ \E t \in Threads : Lz4_Work(t)
  \/ Lz4_Open
  \/ Lz4_Header
  \/ Lz4_Write
  \/ Lz4_Finish
  \/ Evp_Start
  \/ Evp_Load
  \/ \E t \in Threads : Evp_Work(t)
  \/ Evp_Open
  \/ Evp_Header
  \/ Evp_Write
  \/ Evp_Finish
  \/ Zstd_Start
  \/ \E t \in Threads : Zstd_Tell(t)
  \/ \E t \in Threads : Zstd_Read(t)
  \/ \E t \in Threads : Zstd_Work(t)
  \/ Zstd_Open
  \/ Zstd_Header
  \/ Zstd_Write
  \/ Zstd_Meta
  \/ Truncate
  \/ Corrupt
  \/ LedgerTamper
  \/ Dec_Finish
  \/ ZDec_Open
  \/ ZDec_Record
  \/ LDec_Open
  \/ LDec_Record
  \/ L2Dec_Open
  \/ L2Dec_Record
  \/ EDec_Open
  \/ EDec_Record

Spec == Init /\ [][Next]_vars

\* the steps of worker thread t, and the steps of the thread that runs compress
Worker(t) ==
  /\ t \in Threads
  /\ \/ jobqueue_pop_read(t) \/ jobqueue_pop_take(t)
     \/ Lz4_Work(t) \/ Evp_Work(t)
     \/ Zstd_Tell(t) \/ Zstd_Read(t) \/ Zstd_Work(t)

Main ==
  \/ Spawn \/ Join \/ LoadDone
  \/ Lz4_Start \/ Lz4_Load \/ Lz4_Open \/ Lz4_Header \/ Lz4_Write \/ Lz4_Finish
  \/ Evp_Start \/ Evp_Load \/ Evp_Open \/ Evp_Header \/ Evp_Write \/ Evp_Finish
  \/ Zstd_Start \/ Zstd_Open \/ Zstd_Header \/ Zstd_Write \/ Zstd_Meta

\* the scheduler runs every thread that can take a step: a thread blocked in
\* pthread_mutex_lock or pthread_join can take none
FairSpec ==
  /\ Spec
  /\ WF_vars(Main)
  /\ \A t \in 1..MaxWorkers : WF_vars(Worker(t))

\* ------------------------------------------------------------- properties
\* chunk i of the input: the bytes at offsets [i * chunk_size, (i+1) * chunk_size)
ChunkOf(i) ==
  SubSeq(input, i * chunk_size + 1, Min((i + 1) * chunk_size, Len(input)))

\* f[0] \o f[1] \o ... \o f[n-1]
RECURSIVE Concat(_, _)
Concat(f, n) == IF n <= 0 THEN <<>> ELSE Concat(f, n - 1) \o f[n - 1]

\* the smallest n with n * b >= a
CeilDiv(a, b) == CHOOSE n \in 0..a : n * b >= a /\ (n = 0 \/ (n - 1) * b < a)

\* the serialized form of result slot i, as the run's writer emits it
SlotBytes(i) ==
  IF variant = "lz4" THEN Lz4Record(jobs[i])
  ELSE IF variant = "evp" THEN EvpRecord(jobs[i])
  ELSE ZstdRecord(results[i])

HeaderLen == IF variant = "zstd" THEN 7 + 8 + 8 + 8 ELSE 8 + 8 + 4

\* the container after its header
Body == SubSeq(fcmp, HeaderLen + 1, Len(fcmp))

\* compress has passed the barrier (or returned success)
PastJoin == mpc \in {"open", "header", "write"} \/ cret = "0"

\* C1: with the ZSTDCP1 format, when compress and then decompress of the
\* produced (untouched) container both report success, the reconstructed file
\* equals the input byte for byte.
C1_RoundTrip ==
  (variant = "zstd" /\ cret = "0" /\ ~cut /\ tamper = "none" /\ ~wfail
     /\ dret = "0") =>
    fout = input

\* C2: the job queue never hands one descriptor id to two pop calls: every id
\* has been claimed at most once, at any time and when all workers are done,
\* and two workers never hold the same descriptor.
C2_PopAtMostOnce ==
  variant \in {"lz4", "evp"} =>
    /\ \A i \in DOMAIN claims : claims[i] <= 1
    /\ \A t1, t2 \in Threads :
         (t1 # t2 /\ wpc[t1] = "work" /\ wpc[t2] = "work") => wjob[t1] # wjob[t2]

\* two workers hold a descriptor at the same time
C2_Witness ==
  /\ variant \in {"lz4", "evp"}
  /\ nthreads >= 2
  /\ wpc[1] = "work" /\ wpc[2] = "work"

\* C3: once the workers have all returned, every descriptor id 0..M-1 has been
\* claimed, also when a worker met a per-chunk failure on an earlier chunk.
C3_AllClaimed ==
  PastJoin => \A i \in 0..(num_chunks - 1) : claims[i] >= 1

\* C4: the container's records are the result slots in ascending id order,
\* whatever order the workers finished in: after the header the container
\* holds slot 0, slot 1, ... and record i is the result of chunk i.
C4_OrderInvariance ==
  ((mpc = "write" \/ cret = "0") /\ ~cut /\ tamper # "cmp" /\ ~wfail) =>
    /\ Body = Concat([i \in 0..(num_chunks - 1) |-> SlotBytes(i)], mi)
    /\ cret = "0" => mi = num_chunks
    /\ variant \in {"lz4", "evp"} =>
         \A i \in 0..(num_chunks - 1) :
           jobs[i].id = i /\ jobs[i].data = ChunkOf(i)
    /\ variant = "zstd" =>
         \A i \in 0..(num_chunks - 1) :
           results[i].data # NULL => results[i].id = i

\* a complete container of several chunks whose workers finished out of order
C4_Witness ==
  /\ cret = "0" /\ ~cut
  /\ num_chunks >= 2
  /\ ooo

\* C5: while any worker thread is still running, no output file exists and
\* no byte of the container or the ledger has been written.
C5_Barrier ==
  (\E t \in Threads : wpc[t] \in {"pop", "inc", "work"}) =>
    (created = {} /\ fcmp = <<>> /\ fmeta = <<>>)

\* container bytes written by a run of two workers that produced a result
C5_Witness ==
  /\ nthreads >= 2
  /\ hiDone >= 0
  /\ fcmp # <<>>
  /\ \A t \in Threads : wpc[t] = "done"

\* C6: a chunk whose codec output is not strictly smaller than the chunk is
\* stored raw: its record carries the raw marker, equal lengths and the
\* original bytes verbatim.
C6_RawFallback ==
  (variant \in {"lz4", "zstd"} /\ cret = "0" /\ faults = 0) =>
    \A i \in 0..(num_chunks - 1) :
      LET chunk == ChunkOf(i)
          n     == Len(chunk)
      IN  Len(CodecCompress(chunk)) >= n =>
            SlotBytes(i) = IF variant = "zstd"
                             THEN <<1>> \o U64(n) \o U64(n) \o chunk
                             ELSE I32(-1) \o I32(-1) \o U64(n) \o chunk

\* C7: (part_002 format) when the codec call or its setup failed for a chunk,
\* compress still succeeds and the container record of that chunk carries the
\* chunk's original bytes verbatim.
C7_FailureKeepsBytes ==
  (variant = "evp" /\ cret = "0" /\ ~wfail) =>
    \A i \in 0..(num_chunks - 1) :
      jobs[i].cdata = NULL =>
        SubSeq(SlotBytes(i), 9, Len(SlotBytes(i))) = jobs[i].data

\* C8: the planner's descriptors cover the input exactly: ceil(T/C) of them,
\* ids 0, 1, ... in order, descriptor i at offset i*C, every length in 1..C,
\* all but the last equal to C, the lengths summing to T, the data being the
\* input's bytes at that offset.
C8_PlannerCoverage ==
  (variant \in {"lz4", "evp"} /\ mpc \in {"spawn", "join", "open", "header", "write"}) =>
    LET T == Len(input)
        C == chunk_size
        n == num_chunks
        len(i) == IF variant = "lz4" THEN jobs[i].size ELSE jobs[i].orig_size
    IN  /\ n = CeilDiv(T, C)
        /\ DOMAIN jobs = 0..(n - 1)
        /\ \A i \in 0..(n - 1) :
             /\ jobs[i].id = i
             /\ jobs[i].offset = i * C
             /\ len(i) >= 1 /\ len(i) <= C
             /\ i < n - 1 => len(i) = C
             /\ jobs[i].data = Bytes(input, i * C, len(i))
        /\ Concat([i \in 0..(n - 1) |-> jobs[i].data], n) = input

\* a planned input of several chunks whose last chunk is shorter
C8_Witness ==
  /\ variant \in {"lz4", "evp"}
  /\ mpc = "spawn"
  /\ num_chunks >= 2
  /\ Len(input) % chunk_size # 0

\* C9: on an empty input compress fails before any worker is launched and
\* before any output file is created.
C9_EmptyInput ==
  Len(input) = 0 =>
    /\ mpc \in {"start", "exit"}
    /\ mpc = "exit" => cret \in {"-1", "1"}
    /\ cret # "0"
    /\ \A t \in Threads : wpc[t] = "new"
    /\ created = {} /\ fcmp = <<>> /\ fmeta = <<>>

\* compress has rejected an empty input without any environment failure
C9_Witness ==
  /\ Len(input) = 0
  /\ faults = 0
  /\ mpc = "exit"

\* C10: when the container ends before all chunk_count records are complete,
\* decompress reports failure.
C10_TruncatedFails ==
  (variant \in {"lz4", "zstd"} /\ cut /\ dpc = "exit") => dret # "0"

\* C11: decompress of a container whose leading magic bytes are not the magic
\* compress writes returns failure, without creating the output file and
\* without reading any record.
C11_MagicCheck ==
  (variant = "zstd" /\ dpc # "idle"
     /\ (Len(fcmp) < Len(Magic) \/ Bytes(fcmp, 0, Len(Magic)) # Magic)) =>
    /\ dpc = "exit" /\ dret = "-1"
    /\ "out" \notin created
    /\ di = 0 /\ dpos = 0 /\ fout = <<>>

\* decompress has returned on a full-length container with a damaged magic
C11_Witness ==
  /\ variant = "zstd" /\ tamper = "cmp"
  /\ Bytes(fcmp, 0, Len(Magic)) # Magic
  /\ dpc = "exit"

\* the complete records of a ZSTDCP1 container, read from 0-based offset pos,
\* at most n of them
RECURSIVE ZRecords(_, _)
ZRecords(pos, n) ==
  IF n <= 0 \/ Len(fcmp) - pos < 17 THEN <<>>
  ELSE LET orig   == U64Val(Bytes(fcmp, pos + 1, 8))
           stored == U64Val(Bytes(fcmp, pos + 9, 8))
       IN  IF stored > Len(fcmp) - pos - 17 THEN <<>>
           ELSE <<[flag |-> fcmp[pos + 1], orig |-> orig,
                   payload |-> Bytes(fcmp, pos + 17, stored)]>>
                \o ZRecords(pos + 17 + stored, n - 1)

\* the records of the container at hand, as its header counts them
ZContainer ==
  IF Len(fcmp) < 31 THEN <<>> ELSE ZRecords(31, U64Val(Bytes(fcmp, 23, 8)))

\* C12: decompress never reports success on a container holding a Compressed
\* record whose decoded size differs from the record's original_length.
C12_SizeCheck ==
  (variant = "zstd" /\ dpc = "exit" /\ dret = "0") =>
    \A k \in 1..Len(ZContainer) :
      LET r   == ZContainer[k]
          out == CodecExpand(r.payload)
      IN  (r.flag # 1 /\ out # CodecError) => Len(out) = r.orig

\* C13: once the codec has reported an error for a record, decompress has
\* stopped and returned failure: it decodes no later record and never returns
\* success.
C13_DecodeFailureFatal ==
  "codec" \in dlog => (dpc = "exit" /\ dret # "0")

\* C14: the ledger does not influence decompress.  A container written by a
\* compress without failures decodes, with the ledger compress wrote, to the
\* input with result 0; with any other ledger content (no lines, another id,
\* length or digest in one line) decompress ends with the same output and the
\* same result.
C14_LedgerIndependence ==
  (tamper = "meta" /\ dpc = "exit") => (dret = "0" /\ fout = input)

\* C15: when a write to the container or to the ledger has failed during
\* compress, compress does not return success.
C15_WriteFailureAborts ==
  wfail => cret # "0"

\* C16: compress succeeds or fails as a unit.  After a success both output
\* files exist, the container holds every record and the ledger one line per
\* chunk; after a failure no container file is left in the output directory.
C16_Unit ==
  /\ cret = "0" =>
       /\ {"cmp", "meta"} \subseteq created
       /\ (~cut /\ tamper = "none" /\ ~wfail) =>
            /\ Len(fmeta) = num_chunks
            /\ Body = Concat([i \in 0..(num_chunks - 1) |-> SlotBytes(i)],
                             num_chunks)
  /\ (mpc = "exit" /\ cret # "0") => "cmp" \notin created

\* the ledger names, for some chunk of the reconstructed file, a digest that
\* is not the digest of that chunk
LedgerMismatch ==
  \E k \in 1..Min(Len(fmeta), num_chunks) :
    LET chunk == Bytes(fout, (k - 1) * chunk_size,
                       Min(chunk_size, Len(fout) - (k - 1) * chunk_size))
    IN  fmeta[k][4] # (IF variant = "lz4" THEN cpu_hash_fnv1a(chunk)
                       ELSE Sha256(chunk))

\* C17: (default mode) when decompress has reconstructed the file and the
\* ledger's digest of some chunk differs from the digest of the reconstructed
\* chunk, decompress has reported the mismatch, and it has completed the
\* reconstruction with success.
C17_MismatchPolicy ==
  (dpc = "exit" /\ cret = "0" /\ ~cut /\ tamper # "cmp" /\ ~wfail
     /\ fout = input /\ LedgerMismatch) =>
    "mismatch" \in dlog /\ dret = "0"

PreflightFailed ==
  /\ mpc # "start" /\ Len(input) > 0
  /\ (IF variant = "zstd" THEN results ELSE jobs) = <<>>

\* C19: after a pre-flight failure compress has returned a failure code; no
\* worker thread was created and no output file exists.
C19_PreflightAbort ==
  PreflightFailed =>
    /\ mpc = "exit" /\ cret \notin {"none", "0"}
    /\ \A t \in Threads : wpc[t] = "new"
    /\ created = {} /\ fcmp = <<>> /\ fmeta = <<>>

\* compress has returned after a pre-flight failure on a non-empty input
C19_Witness ==
  PreflightFailed /\ mpc = "exit" /\ faults = 1

\* original_length of the first n records of recs, summed
RECURSIVE SumOrig(_, _)
SumOrig(recs, n) == IF n <= 0 THEN 0 ELSE SumOrig(recs, n - 1) + recs[n].orig

\* C20: in the ZSTDCP1 container of a compress that returned success, the
\* header's chunk count is the number of records, and the records'
\* original_length fields sum to the header's total size, the input's length.
C20_LengthInvariant ==
  (variant = "zstd" /\ cret = "0" /\ ~cut /\ tamper # "cmp" /\ ~wfail) =>
    LET total == U64Val(Bytes(fcmp, 7, 8))
        count == U64Val(Bytes(fcmp, 23, 8))
    IN  /\ total = Len(input)
        /\ Len(ZContainer) = count
        /\ SumOrig(ZContainer, Len(ZContainer)) = total

\* the length fields of container record i, read from its serialized form;
\* -1 where the format has no such field
RecOrig(i) ==
  LET rec == SlotBytes(i)
  IN  IF variant = "zstd" THEN U64Val(Bytes(rec, 1, 8))
      ELSE IF variant = "lz4" /\ I32Val(Bytes(rec, 0, 4)) <= 0
        THEN U64Val(Bytes(rec, 8, 8))
      ELSE -1

\* the number of payload bytes container record i announces
RecStored(i) ==
  LET rec == SlotBytes(i)
  IN  IF variant = "zstd" THEN U64Val(Bytes(rec, 9, 8))
      ELSE IF variant = "evp" THEN U64Val(Bytes(rec, 0, 8))
      ELSE IF I32Val(Bytes(rec, 0, 4)) > 0 THEN I32Val(Bytes(rec, 0, 4))
      ELSE U64Val(Bytes(rec, 8, 8))

\* C21: after a successful compress the ledger has one line per chunk, line i
\* carries id i, and its original_length and stored_length are those of
\* container record i, also for a chunk stored raw.
C21_LedgerAgrees ==
  (cret = "0" /\ ~cut /\ tamper = "none" /\ ~wfail) =>
    /\ Len(fmeta) = num_chunks
    /\ \A k \in 1..Len(fmeta) :
         /\ fmeta[k][1] = k - 1
         /\ RecOrig(k - 1) # -1 => fmeta[k][2] = RecOrig(k - 1)
         /\ fmeta[k][3] = RecStored(k - 1)

\* the slot a worker that holds a chunk will write
SlotOf(t) == IF variant = "zstd" THEN ChunkId(wjob[t]) ELSE wjob[t]

\* C22: every result slot has at most one owner: no slot index is claimed by
\* two workers (in the shared-cursor variant the index is read_offset /
\* chunk_size, clamped, also after a short read), and two workers that hold a
\* chunk at the same time are about to write different slots.
C22_SlotExclusive ==
  /\ \A i \in DOMAIN claims : claims[i] <= 1
  /\ \A t1, t2 \in Threads :
       (t1 # t2 /\ wpc[t1] = "work" /\ wpc[t2] = "work") =>
         SlotOf(t1) # SlotOf(t2)

\* a step that moves the file cursor of the source is a read of the bytes
\* [fpos, fpos') into the buffer of the reader: the loading loop fills
\* jobs[mi].data, a worker of the shared-cursor variant fills its own buf
ReadAtCursor ==
  fpos' # fpos =>
    /\ fpos' > fpos /\ fpos' <= Len(input)
    /\ IF variant = "zstd"
         THEN \E t \in Threads :
                /\ wpc[t] = "inc" /\ lock = t
                /\ wbuf'[t] = Bytes(input, fpos, fpos' - fpos)
         ELSE jobs'[mi].data = Bytes(input, fpos, fpos' - fpos)

\* the ranges read so far are [0, fpos); at success nothing is left unread
ReadAll == cret = "0" => fpos = Len(input)

\* C23: every read takes the bytes at the shared cursor and advances it by
\* their number, so the ranges read are adjacent and pairwise disjoint, and
\* when compress reports success they cover [0, total_size): no byte of the
\* source is read twice or skipped.
C23_ReadExactlyOnce == [][ReadAtCursor /\ ReadAll']_vars

\* result slot i holds a payload for the whole of chunk i: a compressed
\* buffer, or the original bytes where the writer stores them raw
SlotComplete(i) ==
  LET n == Len(ChunkOf(i))
  IN  IF variant = "zstd"
        THEN /\ results[i].data # NULL
             /\ results[i].orig_size = n
             /\ Len(results[i].data) = 1 + results[i].comp_size
      ELSE IF variant = "evp"
        THEN /\ jobs[i].cdata # NULL
             /\ jobs[i].orig_size = n
             /\ Len(jobs[i].cdata) = jobs[i].csize
      ELSE /\ jobs[i].size = n
           /\ IF jobs[i].comp_size > 0
                THEN /\ jobs[i].comp_buf # NULL
                     /\ Len(jobs[i].comp_buf) = jobs[i].comp_size
                ELSE jobs[i].comp_size = -1 /\ Len(jobs[i].data) = n

\* C24: when compress has passed the barrier and goes on to write the
\* container, every result slot 0..chunk_count-1 holds a completed result,
\* also when a worker left early on a resource failure.
C24_SlotsFilled ==
  PastJoin => \A i \in 0..(num_chunks - 1) : SlotComplete(i)

\* the chunks of the run that were digested: every chunk of the loading
\* loop, or the chunks a worker of the shared-cursor variant read
Digested ==
  IF variant = "zstd" THEN {i \in 0..(num_chunks - 1) : claims[i] >= 1}
  ELSE 0..(num_chunks - 1)

\* the chunks whose digest is the accelerated backend's output, and the
\* chunks digested in software (no accelerated backend is linked in "evp")
ByAccelerated == IF gpu = "none" THEN {} ELSE Digested \ gfail
BySoftware    == Digested \ ByAccelerated

\* C25: within one compression run all chunk digests come from the same
\* backend: never some chunks from the accelerated backend and others from
\* the software backend.
C25_BackendNotMixed ==
  PastJoin => (ByAccelerated = {} \/ BySoftware = {})

\* the original bytes of chunk i are in memory: jobs[i].data from the loading
\* loop until free(jobs[i].data), which compressor.c reaches in the write
\* loop and part_002 after the output files are closed
Held(i) ==
  /\ variant \in {"lz4", "evp"} /\ mpc # "exit"
  /\ i \in DOMAIN jobs /\ jobs[i].data # NULL
  /\ ~(variant = "lz4" /\ mpc = "write" /\ i < mi)

\* the number of chunks whose original bytes are in memory; a worker of the
\* shared-cursor variant holds its chunk in buf from malloc to free(buf)
LiveChunks ==
  IF variant = "zstd" THEN Cardinality({t \in Threads : wbuf[t] # NULL})
  ELSE Cardinality({i \in 0..(num_chunks - 1) : Held(i)})

\* a worker about to claim its next chunk has released the chunks it worked on
ReleasedBeforeNext ==
  IF variant = "zstd"
    THEN \A t \in Threads : wpc[t] = "pop" => wbuf[t] = NULL
    ELSE \A i \in 0..(num_chunks - 1) :
           (claims[i] >= 1 /\ \A t \in Threads : wpc[t] = "work" => wjob[t] # i)
             => ~Held(i)

\* C26: at every point of a compression run at most as many chunks have
\* their original bytes in memory as there are worker threads, and a chunk's
\* original bytes are released before its worker claims the next chunk.
C26_BoundedBuffers ==
  /\ LiveChunks <= nthreads
  /\ ReleasedBeforeNext

\* total_original_size as the header of the container at hand states it;
\* -1 when the container is shorter than a header
HeaderTotal ==
  IF Len(fcmp) < HeaderLen THEN -1
  ELSE U64Val(Bytes(fcmp, IF variant = "zstd" THEN Len(Magic) ELSE 0, 8))

\* C27: when decompress returns success, the output holds as many bytes as
\* the header's total_original_size and all chunk_count records have been
\* decoded; a container whose records fall short of the header is rejected.
C27_SuccessFullLength ==
  (dpc = "exit" /\ dret = "0") =>
    /\ Len(fout) = HeaderTotal
    /\ di = dnum

\* the offset in the container at which the writer started record k
RecordStart(k) ==
  HeaderLen + Len(Concat([i \in 0..(num_chunks - 1) |-> SlotBytes(i)], k))

\* the original bytes of the chunks before chunk k
ChunksBefore(k) == Concat([i \in 0..(num_chunks - 1) |-> ChunkOf(i)], k)

\* C28: in the variant with 32-bit record lengths, for every chunk the writer
\* stored raw the reader consumes exactly the bytes of that record and writes
\* the chunk's original bytes: once past the record it stands where the
\* writer started the next one, and it ends with all records decoded.
C28_RawFraming ==
  (variant = "lz4" /\ cret = "0" /\ ~cut /\ tamper = "none" /\ ~wfail
     /\ "oom" \notin dlog) =>
    \A k \in 0..(num_chunks - 1) :
      jobs[k].comp_size <= 0 =>
        /\ (dpc \in {"loop", "loop2"} /\ di > k) =>
             (dpos = RecordStart(di) /\ fout = ChunksBefore(di))
        /\ (dpc = "exit" /\ dret = "0") =>
             (di = dnum /\ dpos = Len(fcmp) /\ fout = input)

\* a step of the JobQueue keeps the cursor within 0..count and never moves
\* it back; a pop that returns a descriptor moves it by one and returns the
\* descriptor at the position it had; a pop on the exhausted queue returns
\* NULL and leaves it where it was
QueueStep ==
  IF variant \in {"lz4", "evp"}
    THEN /\ 0 <= next' /\ next' <= num_chunks'
         /\ next' >= next
         /\ \A t \in Threads :
              /\ (wpc[t] = "inc" /\ wpc'[t] = "work") =>
                   (next' = next + 1 /\ wjob'[t] = next)
              /\ (wpc[t] = "pop" /\ wpc'[t] = "done") =>
                   (next' = next /\ next >= num_chunks)
    ELSE next' = next          \* the shared-cursor variant has no JobQueue

\* C29: the queue cursor satisfies 0 <= next <= count at all times and never
\* decreases; a successful pop advances it by exactly one and returns the
\* descriptor at the prior position; a pop on an exhausted queue leaves it
\* unchanged.
C29_QueueCursor == [][QueueStep]_vars

\* two workers have drained a queue of several descriptors and one of them
\* has met the exhausted queue
C29_Witness ==
  /\ variant \in {"lz4", "evp"}
  /\ nthreads >= 2 /\ num_chunks >= 2
  /\ next = num_chunks
  /\ \A i \in 0..(num_chunks - 1) : claims[i] = 1
  /\ \E t \in Threads : wpc[t] = "done"

\* C30: the claim lock is released on every path of the claim step, so under
\* fair scheduling the workers all leave their loops, the barrier is passed
\* and compress terminates, for every number of workers and of chunks.
C30_Termination ==
  /\ <>(mpc = "exit")
  /\ (mpc = "join") ~> (mpc = "open" /\ \A t \in Threads : wpc[t] = "done")
  /\ [](mpc = "exit" => lock = 0)

\* compress has returned after two workers shared several chunks, one of
\* which failed
C30_Witness ==
  /\ mpc = "exit" /\ cret # "none"
  /\ nthreads >= 2 /\ hiDone >= 1
  /\ faults >= 1
  /\ \A t \in Threads : wpc[t] = "done"

\* ------------------------------------------- pure functions, called alone
KB == 1024
MB == 1024 * KB

choose_chunk_size_below(size) ==
  IF size < 8 * MB THEN 1 * MB
  ELSE IF size < 128 * MB THEN 4 * MB
  ELSE IF size < 1024 * MB THEN 16 * MB
  ELSE 64 * MB

\* part_002, choose_chunk_size(filesize); size_t holds every value here
choose_chunk_size(size) ==
  IF size <= 8 * MB THEN 1 * MB
  ELSE IF size <= 128 * MB THEN 4 * MB
  ELSE IF size <= 1024 * MB THEN 16 * MB
  ELSE 64 * MB

\* the file sizes of the calls: around 0 and around every limit of a tier,
\* some sizes inside the tiers, and the largest size below 2 GB
Sizes ==
  {x \in {b + d : b \in {0, 8 * MB, 128 * MB, 1024 * MB}, d \in (0 - Near)..Near} :
     x >= 0}
    \cup {MB, 64 * MB, 512 * MB, 2047 * MB, 2047 * MB + (MB - 1)}

\* the bytes of the buffers handed to the checksum functions
HashByte == {0, 1, 97, 128, 255}

RECURSIVE BuffersUpTo(_)
BuffersUpTo(n) ==
  IF n = 0 THEN {<<>>}
  ELSE LET S == BuffersUpTo(n - 1)
       IN  S \cup {Append(b, x) : b \in {y \in S : Len(y) = n - 1},
                                  x \in HashByte}

progVars == <<variant, input, chunk_size, nthreads, gpu, mainVars, jobs,
              results, poolVars, outVars, faults, decVars, wfail, gfail>>

\* one call: of choose_chunk_size with a file size, or of the two checksum
\* functions with the same buffer
CallInit ==
  /\ variant = "evp" /\ input = <<>> /\ chunk_size = 1 /\ nthreads = 1
  /\ gpu = "none"
  /\ Fresh
  /\ chosen = 0 /\ digests = <<>>
  /\ \/ filesize \in Sizes /\ data = NULL
     \/ filesize = 0 /\ data \in BuffersUpTo(HashLen)

\* size_t chunk_size = choose_chunk_size(filesize)
Call_choose_chunk_size ==
  /\ data = NULL
  /\ chosen' = choose_chunk_size(filesize)
  /\ UNCHANGED <<progVars, filesize, data, digests>>

\* cpu_hash_fnv1a(buf, len) on the host, fnv1a32_device(d_buf, len) in the
\* kernel, on the same bytes
Call_fnv1a ==
  /\ data # NULL
  /\ digests' = <<cpu_hash_fnv1a(data), fnv1a32_device(data)>>
  /\ UNCHANGED <<progVars, filesize, chosen, data>>

CallNext == Call_choose_chunk_size \/ Call_fnv1a

CallSpec == CallInit /\ [][CallNext]_vars

\* C31: choose_chunk_size depends on the file size alone and returns 1 MB for
\* sizes up to 8 MB, 4 MB up to 128 MB, 16 MB up to 1 GB and 64 MB above; the
\* result never decreases when the size grows and lies between 1 MB and
\* 64 MB.
C31_ChunkTiers ==
  (data = NULL /\ chosen # 0) =>
    /\ filesize <= 8388608 => chosen = 1048576
    /\ (filesize > 8388608 /\ filesize <= 134217728) => chosen = 4194304
    /\ (filesize > 134217728 /\ filesize <= 1073741824) => chosen = 16777216
    /\ filesize > 1073741824 => chosen = 67108864
    /\ chosen >= 1048576 /\ chosen <= 67108864
    /\ \A a \in Sizes : a <= filesize => choose_chunk_size(a) <= chosen

\* the call has returned for the first size above the 8 MB limit
C31_Witness ==
  /\ data = NULL
  /\ filesize = 8388609
  /\ chosen = 4194304

\* bit k of a
Bit(a, k) == (a \div (2 ^ k)) % 2

\* a XOR b for two bytes, bit by bit
ByteXor(a, b) ==
  LET x(k) == ((Bit(a, k) + Bit(b, k)) % 2) * (2 ^ k)
  IN  x(0) + x(1) + x(2) + x(3) + x(4) + x(5) + x(6) + x(7)

\* 32-bit values as four bytes, lowest first: h * 16777619 modulo 2^32, by
\* long multiplication with 16777619 = 0x01000193 (bytes 147, 1, 0, 1)
TimesPrime(h) ==
  LET c0 == h[1] * 147
      c1 == h[2] * 147 + h[1] + (c0 \div 256)
      c2 == h[3] * 147 + h[2] + (c1 \div 256)
      c3 == h[4] * 147 + h[3] + h[1] + (c2 \div 256)
  IN  <<c0 % 256, c1 % 256, c2 % 256, c3 % 256>>

\* FNV-1a as the claim states it: start from 2166136261 = 0x811C9DC5, and
\* for each byte in order XOR it in, then multiply by 16777619
RECURSIVE Fnv1a(_, _)
Fnv1a(h, buf) ==
  IF buf = <<>> THEN h
  ELSE Fnv1a(TimesPrime(<<ByteXor(h[1], buf[1]), h[2], h[3], h[4]>>), Tail(buf))

Fnv1aOf(buf) ==
  LET h == Fnv1a(<<197, 157, 28, 129>>, buf)
  IN  <<h[4] * 256 + h[3], h[2] * 256 + h[1]>>

\* C32: cpu_hash_fnv1a depends on the bytes of the chunk alone: it starts
\* from 2166136261 and for each byte in order XORs the byte in and multiplies
\* by 16777619 modulo 2^32; fnv1a32_device returns the same value for every
\* buffer.
C32_Fnv1aSame ==
  (data # NULL /\ digests # <<>>) =>
    /\ digests[1] = Fnv1aOf(data)
    /\ digests[2] = digests[1]
    /\ data = <<>> => digests[1] = <<33052, 40389>>

\* both functions have returned 0xE40C292C for the one-byte buffer "a"
C32_Witness ==
  /\ data = <<97>>
  /\ digests = << <<58380, 10540>>, <<58380, 10540>> >>

====
